---- MODULE Spec2Model ----
(***************************************************************************)
(* dojobs: a dispatcher (src/cli.py main) seeds a task queue, starts one   *)
(* worker thread per configured host slot, drains one result per job and   *)
(* then sends one 'STOP' per worker.  Workers (src/cli.py worker) take a   *)
(* job, pass the per-host start throttle (_wait_to_start), stamp the       *)
(* start, call the command runner (src/execute.py execute) and put a       *)
(* result on the done queue.                                               *)
(*                                                                         *)
(* Spec       the dispatch engine, all interleavings of main and workers   *)
(* SpecRunner one call of execute() against one child process              *)
(***************************************************************************)
EXTENDS Integers, Sequences, FiniteSets, TLC

VARIABLES
    jobfile,        \* args.jobfile: the lines of the job file
    work_hosts,     \* args.host: sequence of <<host, num>>
    wait_secs,      \* args.setup_pause: <<>> is None, <<s>> a float s
    utils_bound,    \* whether the name utils.execute resolves where worker runs
    mainpc,         \* position of main()
    num_jobs,       \* main's local num_jobs: <<>> while unbound, else <<n>>
    task_queue,     \* queue.Queue of <<"JOB", job_id, job>> and <<"STOP">>
    done_queue,     \* queue.Queue of result records
    reported,       \* results handed to report(), in order
    stops_sent,     \* number of 'STOP' puts done by main
    threads,        \* the started worker threads, in start order
    data_lock,      \* setup_details['data_lock']: 0 free, else holder thread
    lock_data,      \* setup_details['lock_data']: host -> lock object id
    locks,          \* lock objects made by the defaultdict: id -> holder (0 free)
    taken,          \* history: job_id -> how many times a worker dequeued it
    now,            \* wall clock, in ticks
    rpc,            \* SpecRunner: position of execute()
    rargs,          \* SpecRunner: the arguments of the call
    program,        \* SpecRunner: what the command does when run
    proc,           \* SpecRunner: the child process
    pipe,           \* SpecRunner: bytes written to stdout and not yet read
    str_data,       \* SpecRunner: execute's local str_data
    printed,        \* SpecRunner: what the printer wrote to the console
    deadline,       \* SpecRunner: <<>> or <<t>>, end of communicate(timeout)
    rresult,        \* SpecRunner: <<>> or <<return code, lines>>
    rnow            \* SpecRunner: wall clock, in ticks

engine_vars == <<jobfile, work_hosts, wait_secs, utils_bound, mainpc, num_jobs,
                 task_queue, done_queue, reported, stops_sent, threads,
                 data_lock, lock_data, locks, taken, now>>
runner_vars == <<rpc, rargs, program, proc, pipe, str_data, printed, deadline,
                 rresult, rnow>>
vars == <<engine_vars, runner_vars>>

----------------------------------------------------------------------------
\* Bounds of the model
MaxJobs == 2
MaxWorkers == 2
MaxOut == 3
MaxRunTime == 3

----------------------------------------------------------------------------
\* Values
None == <<>>
Some(x) == <<x>>
Hosts == {"hans", "peter"}
Whitespace == {" ", "\n"}

\* str.strip(): leading and trailing whitespace removed (a line is a sequence
\* of characters; a command word counts as one character here)
RECURSIVE LStrip(_, _)
LStrip(s, chars) ==
    IF s # <<>> /\ Head(s) \in chars THEN LStrip(Tail(s), chars) ELSE s
RECURSIVE RStrip(_, _)
RStrip(s, chars) ==
    IF s # <<>> /\ s[Len(s)] \in chars
    THEN RStrip(SubSeq(s, 1, Len(s) - 1), chars) ELSE s
Strip(s, chars) == RStrip(LStrip(s, chars), chars)

\* The commands a job line can hold, and what each does when run
CommandExists(job) == job \in {<<"true">>, <<"false">>}
ExitStatus(job) == IF job = <<"true">> THEN 0 ELSE 1

\* All sequences over S of length at most n
RECURSIVE SeqsUpTo(_, _)
SeqsUpTo(S, n) ==
    IF n = 0 THEN {<<>>}
    ELSE LET shorter == SeqsUpTo(S, n - 1)
         IN  shorter \cup {Append(s, x) : s \in shorter, x \in S}

\* sum([x for (d, x) in work_hosts])                       (cli.py line 126)
RECURSIVE SumWorkers(_)
SumWorkers(wh) == IF wh = <<>> THEN 0 ELSE Head(wh)[2] + SumWorkers(Tail(wh))
num_processes == SumWorkers(work_hosts)

\* The host of the k-th thread started by the nested loops of lines 146-148
HostOfThreadFirst(wh, k) == Head(wh)[1]
RECURSIVE HostOfThread(_, _)
HostOfThread(wh, k) ==
    IF k <= Head(wh)[2] THEN Head(wh)[1]
    ELSE HostOfThread(Tail(wh), k - Head(wh)[2])

\* Job files: up to MaxJobs lines taken in turn from JobLines, from any start
LinePattern == <<<<"true", "\n">>, <<"false", "\n">>, <<"nosuch">>>>
JobFiles ==
    {[i \in 1..n |-> LinePattern[((o + i) % Len(LinePattern)) + 1]] :
        o \in 1..Len(LinePattern), n \in 0..MaxJobs}

\* Host lists: at most MaxWorkers workers in all, hans listed first and with
\* no fewer workers than peter
HostConfigs ==
    {wh \in SeqsUpTo(Hosts \X (1..MaxWorkers), 2) :
        /\ SumWorkers(wh) <= MaxWorkers
        /\ wh # <<>> => wh[1][1] = "hans"
        /\ Len(wh) = 2 => wh[2][1] = "peter" /\ wh[2][2] <= wh[1][2]}

\* --setup-pause: unset, zero, Pause seconds, or a negative number
Pause == 1
WaitSecs == {None, Some(0), Some(Pause), Some(-1)}

\* `if not wait_secs`: None and 0.0 are falsy               (cli.py line 20)
FalsyNoneOnly(w) == w = None
Falsy(w) == w = None \/ w[1] = 0

\* The clock is followed for two pauses when starts are throttled, and for
\* one tick when they are not (the time stamps are then read by nobody)
MaxTime == 2 * Pause
Horizon == IF Falsy(wait_secs) THEN 1 ELSE MaxTime

NoThreadLocals ==
    [job_id |-> -1, job |-> <<>>, start_date |-> -1, return_code |-> -1,
     console |-> <<>>, wake |-> -1, gate |-> 0, exc |-> ""]
NewThread(host) == [host |-> host, pc |-> "get"] @@ NoThreadLocals

RunnerIdle ==
    /\ rpc = "idle" /\ rargs = <<>> /\ program = <<>> /\ proc = <<>>
    /\ pipe = <<>> /\ str_data = <<>> /\ printed = <<>> /\ deadline = <<>>
    /\ rresult = <<>> /\ rnow = 0

Init ==
    /\ jobfile \in JobFiles
    /\ work_hosts \in HostConfigs
    /\ wait_secs \in WaitSecs
    /\ utils_bound \in BOOLEAN
    /\ mainpc = "submit"
    /\ num_jobs = None
    /\ task_queue = <<>>
    /\ done_queue = <<>>
    /\ reported = <<>>
    /\ stops_sent = 0
    /\ threads = <<>>
    /\ data_lock = 0
    /\ lock_data = <<>>
    /\ locks = <<>>
    /\ taken = [i \in 0..(Len(jobfile) - 1) |-> 0]
    /\ now = 0
    /\ RunnerIdle

----------------------------------------------------------------------------
\* main()                                                 (cli.py lines 125-156)

Threads == 1..Len(threads)
NumLines == Len(jobfile)

\* enumerate(args.jobfile): the index of the next line, num_jobs = job_id + 1
NextIndex == IF num_jobs = None THEN 0 ELSE num_jobs[1]

\* lines 139-142: one iteration of the submit loop
SubmitTask ==
    /\ mainpc = "submit"
    /\ NextIndex < NumLines
    /\ LET job_id == NextIndex
           job == Strip(jobfile[job_id + 1], Whitespace)
       IN  /\ task_queue' = Append(task_queue, <<"JOB", job_id, job>>)
           /\ num_jobs' = Some(job_id + 1)
    /\ UNCHANGED <<jobfile, work_hosts, wait_secs, utils_bound, mainpc, done_queue,
                   reported, stops_sent, threads, data_lock, lock_data, locks,
                   taken, now, runner_vars>>

\* line 139: the job file is exhausted
SubmitEnd ==
    /\ mainpc = "submit"
    /\ NextIndex = NumLines
    /\ mainpc' = "setup"
    /\ UNCHANGED <<jobfile, work_hosts, wait_secs, utils_bound, num_jobs, task_queue,
                   done_queue, reported, stops_sent, threads, data_lock, lock_data,
                   locks, taken, now, runner_vars>>

\* lines 146-148: threading.Thread(target=worker, args=(host, ...)).start()
ThreadsToStart == num_processes
StartThread ==
    /\ mainpc = "setup"
    /\ Len(threads) < ThreadsToStart
    /\ threads' = Append(threads, NewThread(HostOfThread(work_hosts, Len(threads) + 1)))
    /\ UNCHANGED <<jobfile, work_hosts, wait_secs, utils_bound, mainpc, num_jobs,
                   task_queue, done_queue, reported, stops_sent, data_lock, lock_data,
                   locks, taken, now, runner_vars>>

\* line 151: range(num_jobs) is evaluated once all threads are started;
\* num_jobs is unbound when the job file had no line (UnboundLocalError)
SetupEnd ==
    /\ mainpc = "setup"
    /\ Len(threads) = ThreadsToStart
    /\ mainpc' = IF num_jobs = None THEN "crashed" ELSE "drain"
    /\ UNCHANGED <<jobfile, work_hosts, wait_secs, utils_bound, num_jobs, task_queue,
                   done_queue, reported, stops_sent, threads, data_lock, lock_data,
                   locks, taken, now, runner_vars>>

\* queue.Queue.get(): the item handed out, and the queue it leaves
TakenLast(q) == q[Len(q)]
Taken(q) == Head(q)
RestKeep(q) == q
Rest(q) == Tail(q)
DrainedKeep(q) == q
Drained(q) == Rest(q)

\* lines 151-152: report(**done_queue.get()), num_jobs times
ResultsToDrainShort == num_jobs[1] - 1
ResultsToDrain == num_jobs[1]
GetResult ==
    /\ mainpc = "drain"
    /\ Len(reported) < ResultsToDrain
    /\ done_queue # <<>>
    /\ reported' = Append(reported, Taken(done_queue))
    /\ done_queue' = Drained(done_queue)
    /\ UNCHANGED <<jobfile, work_hosts, wait_secs, utils_bound, mainpc, num_jobs,
                   task_queue, stops_sent, threads, data_lock, lock_data, locks,
                   taken, now, runner_vars>>

DrainEnd ==
    /\ mainpc = "drain"
    /\ Len(reported) >= ResultsToDrain
    /\ mainpc' = "stop"
    /\ UNCHANGED <<jobfile, work_hosts, wait_secs, utils_bound, num_jobs, task_queue,
                   done_queue, reported, stops_sent, threads, data_lock, lock_data,
                   locks, taken, now, runner_vars>>

\* lines 155-156: task_queue.put('STOP'), num_processes times
StopsToSendShort == num_processes - 1
StopsToSend == num_processes
SendStop ==
    /\ mainpc = "stop"
    /\ stops_sent < StopsToSend
    /\ task_queue' = Append(task_queue, <<"STOP">>)
    /\ stops_sent' = stops_sent + 1
    /\ UNCHANGED <<jobfile, work_hosts, wait_secs, utils_bound, mainpc, num_jobs,
                   done_queue, reported, threads, data_lock, lock_data, locks,
                   taken, now, runner_vars>>

StopEnd ==
    /\ mainpc = "stop"
    /\ stops_sent >= StopsToSend
    /\ mainpc' = "done"
    /\ UNCHANGED <<jobfile, work_hosts, wait_secs, utils_bound, num_jobs, task_queue,
                   done_queue, reported, stops_sent, threads, data_lock, lock_data,
                   locks, taken, now, runner_vars>>

----------------------------------------------------------------------------
\* worker(host, setup_details, in_queue, out_queue)          (cli.py lines 29-49)

\* line 30: in_queue.get(); 'STOP' ends the loop, a job enters _wait_to_start,
\* whose first test (line 20) skips the locks when wait_secs is falsy
ThrottleEntry(w) == IF Falsy(w) THEN "start" ELSE "lock"

\* line 30: iter(in_queue.get, 'STOP') ends at the sentinel and worker returns
AfterStopResume(th) == [th EXCEPT !.pc = "get"]
AfterStop(th) == [th EXCEPT !.pc = "terminated"]

Get(t) ==
    /\ threads[t].pc = "get"
    /\ task_queue # <<>>
    /\ LET item == Taken(task_queue)
       IN  /\ task_queue' = Rest(task_queue)
           /\ IF item = <<"STOP">>
              THEN /\ threads' = [threads EXCEPT ![t] = AfterStop(@)]
                   /\ taken' = taken
              ELSE /\ threads' = [threads EXCEPT ![t].pc = ThrottleEntry(wait_secs),
                                                 ![t].job_id = item[2],
                                                 ![t].job = item[3]]
                   /\ taken' = [taken EXCEPT ![item[2]] = @ + 1]
    /\ UNCHANGED <<jobfile, work_hosts, wait_secs, utils_bound, mainpc, num_jobs,
                   done_queue, reported, stops_sent, data_lock, lock_data, locks,
                   now, runner_vars>>

\* _get_locked, line 14: `with lock:` acquires data_lock
LockRegistry(t) ==
    /\ threads[t].pc = "lock"
    /\ data_lock = 0
    /\ data_lock' = t
    /\ threads' = [threads EXCEPT ![t].pc = "lookup"]
    /\ UNCHANGED <<jobfile, work_hosts, wait_secs, utils_bound, mainpc, num_jobs,
                   task_queue, done_queue, reported, stops_sent, lock_data, locks,
                   taken, now, runner_vars>>

\* The key under which a host's gate is kept in lock_data
GateKeyShared(host) == "all"
GateKey(host) == host

\* dict lookup in lock_data, a sequence of <<key, lock id>> in insertion order
HasKeyNever(data, key) == FALSE
HasKey(data, key) == \E e \in 1..Len(data) : data[e][1] = key
Lookup(data, key) == data[CHOOSE e \in 1..Len(data) : data[e][1] = key][2]

\* _get_locked, lines 14-15: the value of data_lock once holder has left the
\* `with lock:` block
LeaveWithHeld(holder) == holder
LeaveWith(holder) == 0

\* _get_locked, line 15: data[key] on a defaultdict(threading.Lock) makes the
\* lock on first reference; leaving the `with` releases data_lock
LookupGate(t) ==
    /\ threads[t].pc = "lookup"
    /\ LET key == GateKey(threads[t].host)
           known == HasKey(lock_data, key)
           id == IF known THEN Lookup(lock_data, key) ELSE Len(locks) + 1
       IN  /\ lock_data' = IF known THEN lock_data ELSE Append(lock_data, <<key, id>>)
           /\ locks' = IF known THEN locks ELSE Append(locks, 0)
           /\ threads' = [threads EXCEPT ![t].pc = "acquire", ![t].gate = id]
    /\ data_lock' = LeaveWith(t)
    /\ UNCHANGED <<jobfile, work_hosts, wait_secs, utils_bound, mainpc, num_jobs,
                   task_queue, done_queue, reported, stops_sent, taken, now,
                   runner_vars>>

\* worker has no try: an exception raised inside the loop ends the thread, with
\* the job it had taken
RaiseResume(th, exc) == [th EXCEPT !.pc = "get", !.exc = exc, !.gate = 0]
Raise(th, exc) == [th EXCEPT !.pc = "dead", !.exc = exc, !.gate = 0]

\* _wait_to_start, lines 22-23: `with <gate>:` acquires the host's gate, then
\* time.sleep(wait_secs) starts; a negative length raises ValueError, which
\* leaves the `with` (the gate is released) and ends the thread
AcquireGate(t) ==
    /\ threads[t].pc = "acquire"
    /\ locks[threads[t].gate] = 0
    /\ IF wait_secs[1] < 0
       THEN /\ threads' = [threads EXCEPT ![t] = Raise(@, "ValueError")]
            /\ locks' = locks
       ELSE /\ threads' = [threads EXCEPT ![t].pc = "sleeping",
                                          ![t].wake = now + wait_secs[1]]
            /\ locks' = [locks EXCEPT ![threads[t].gate] = t]
    /\ UNCHANGED <<jobfile, work_hosts, wait_secs, utils_bound, mainpc, num_jobs,
                   task_queue, done_queue, reported, stops_sent, data_lock, lock_data,
                   taken, now, runner_vars>>

\* _wait_to_start, lines 22-23: the lock objects once the `with` block that
\* holds gate g is left
ReleasedNot(ls, g) == ls
Released(ls, g) == [ls EXCEPT ![g] = 0]

\* _wait_to_start, line 23: time.sleep returns no earlier than asked; leaving
\* the `with` releases the gate
Wake(t) ==
    /\ threads[t].pc = "sleeping"
    /\ now >= threads[t].wake
    /\ locks' = Released(locks, threads[t].gate)
    /\ threads' = [threads EXCEPT ![t].pc = "start", ![t].wake = -1, ![t].gate = 0]
    /\ UNCHANGED <<jobfile, work_hosts, wait_secs, utils_bound, mainpc, num_jobs,
                   task_queue, done_queue, reported, stops_sent, data_lock, lock_data,
                   taken, now, runner_vars>>

\* lines 33-36: start_date = datetime.now(), then utils.execute.execute(job).
\* cli.py binds the runner as `execute` (line 9) and never binds `utils`, so the
\* call raises NameError there; dojobs.py line 9 imports utils.execute.
\* execute(job) with the default arguments: Popen raises FileNotFoundError for
\* a command that does not exist and execute returns (1, []), lines 76-77
StartJob(t) ==
    /\ threads[t].pc = "start"
    /\ threads' =
         [threads EXCEPT ![t] =
            IF ~utils_bound
            THEN Raise([@ EXCEPT !.start_date = now], "NameError")
            ELSE IF ~CommandExists(@.job)
            THEN [@ EXCEPT !.start_date = now, !.pc = "finish", !.return_code = 1,
                           !.console = <<>>]
            ELSE [@ EXCEPT !.start_date = now, !.pc = "running"]]
    /\ UNCHANGED <<jobfile, work_hosts, wait_secs, utils_bound, mainpc, num_jobs,
                   task_queue, done_queue, reported, stops_sent, data_lock, lock_data,
                   locks, taken, now, runner_vars>>

\* execute, lines 69-73: the child closes stdout and exits; execute returns
\* (proc.returncode, str_data)
ReturnCode(job) == ExitStatus(job)
ProcExit(t) ==
    /\ threads[t].pc = "running"
    /\ threads' = [threads EXCEPT ![t].pc = "finish",
                                  ![t].return_code = ReturnCode(threads[t].job),
                                  ![t].console = <<>>]
    /\ UNCHANGED <<jobfile, work_hosts, wait_secs, utils_bound, mainpc, num_jobs,
                   task_queue, done_queue, reported, stops_sent, data_lock, lock_data,
                   locks, taken, now, runner_vars>>

\* lines 39-49: finish_date = datetime.now(); out_queue.put({...})
ResultFirstHost(th, finish_date) ==
    [job_id |-> th.job_id, job |-> th.job, return_code |-> th.return_code,
     console |-> th.console, host |-> work_hosts[1][1], start_date |-> th.start_date,
     finish_date |-> finish_date, wall_time |-> finish_date - th.start_date]
Result(th, finish_date) ==
    [job_id |-> th.job_id, job |-> th.job, return_code |-> th.return_code,
     console |-> th.console, host |-> th.host, start_date |-> th.start_date,
     finish_date |-> finish_date, wall_time |-> finish_date - th.start_date]
AfterPutRaise(th) ==
    IF th.return_code # 0 THEN [th EXCEPT !.pc = "dead", !.exc = "CalledProcessError"]
    ELSE [host |-> th.host, pc |-> "get"] @@ NoThreadLocals
AfterPut(th) == [host |-> th.host, pc |-> "get"] @@ NoThreadLocals
PutResult(t) ==
    /\ threads[t].pc = "finish"
    /\ done_queue' = Append(done_queue, Result(threads[t], now))
    /\ threads' = [threads EXCEPT ![t] = AfterPut(@)]
    /\ UNCHANGED <<jobfile, work_hosts, wait_secs, utils_bound, mainpc, num_jobs,
                   task_queue, reported, stops_sent, data_lock, lock_data, locks,
                   taken, now, runner_vars>>

\* The wall clock advances
Tick ==
    /\ now < Horizon
    /\ now' = now + 1
    /\ UNCHANGED <<jobfile, work_hosts, wait_secs, utils_bound, mainpc, num_jobs,
                   task_queue, done_queue, reported, stops_sent, threads, data_lock,
                   lock_data, locks, taken, runner_vars>>

MainStep ==
    \/ SubmitTask \/ SubmitEnd \/ StartThread \/ SetupEnd
    \/ GetResult \/ DrainEnd \/ SendStop \/ StopEnd
WorkerStep(t) ==
    \/ Get(t) \/ LockRegistry(t) \/ LookupGate(t) \/ AcquireGate(t) \/ Wake(t)
    \/ StartJob(t) \/ ProcExit(t) \/ PutResult(t)
ProgramStep == MainStep \/ \E t \in Threads : WorkerStep(t)

Next ==
    \/ SubmitTask
    \/ SubmitEnd
    \/ StartThread
    \/ SetupEnd
    \/ GetResult
    \/ DrainEnd
    \/ SendStop
    \/ StopEnd
    \/ \E t \in Threads : Get(t)
    \/ \E t \in Threads : LockRegistry(t)
    \/ \E t \in Threads : LookupGate(t)
    \/ \E t \in Threads : AcquireGate(t)
    \/ \E t \in Threads : Wake(t)
    \/ \E t \in Threads : StartJob(t)
    \/ \E t \in Threads : ProcExit(t)
    \/ \E t \in Threads : PutResult(t)
    \/ Tick

Spec == Init /\ [][Next]_vars

----------------------------------------------------------------------------
\* execute(input_cmd, show_errors, cwd, print_prefix, timeout, print_mode)
\*                                                     (execute.py lines 27-81)
\* One call against one child process.  A character is "h" or "\n"; a line is
\* a sequence of characters.

ExecutePrintMode == {"with_timestamps_and_prefix", "with_prefix", "pure_lines", "no_printing"}

\* What the command does once launched: the characters it writes to stdout,
\* its exit status, how long it runs, and whether it closes stdout when it has
\* written its output (detach) or keeps it open until it exits
Outputs == SeqsUpTo({"h", "\n"}, MaxOut)
RunTimes == {0, MaxRunTime - 1}
Programs ==
    [output : Outputs, status : {0, 3}, runtime : RunTimes, detach : BOOLEAN]
NoProgram == [output |-> <<>>, status |-> 0, runtime |-> 0, detach |-> FALSE]

\* The arguments of the call; exe and cwd tell whether the executable and the
\* working directory exist
PrintOptions ==
    {[print_prefix |-> None, print_mode |-> None],
     [print_prefix |-> Some("p"), print_mode |-> None],
     [print_prefix |-> None, print_mode |-> Some("with_prefix")],
     [print_prefix |-> Some("p"), print_mode |-> Some("pure_lines")],
     [print_prefix |-> None, print_mode |-> Some("bogus")]}
Launches == {[exe |-> TRUE, cwd |-> TRUE], [exe |-> FALSE, cwd |-> TRUE],
             [exe |-> TRUE, cwd |-> FALSE]}
Timeouts == {None, Some(1)}
Calls == {po @@ la @@ [timeout |-> to] : po \in PrintOptions, la \in Launches, to \in Timeouts}

EngineIdle ==
    /\ jobfile = <<>> /\ work_hosts = <<>> /\ wait_secs = None /\ utils_bound = TRUE
    /\ mainpc = "idle" /\ num_jobs = None /\ task_queue = <<>> /\ done_queue = <<>>
    /\ reported = <<>> /\ stops_sent = 0 /\ threads = <<>> /\ data_lock = 0
    /\ lock_data = <<>> /\ locks = <<>> /\ taken = <<>> /\ now = 0

RInit ==
    /\ EngineIdle
    /\ rpc = "called"
    /\ rargs \in Calls
    /\ program \in IF rargs.exe /\ rargs.cwd THEN Programs ELSE {NoProgram}
    /\ proc = <<>>
    /\ pipe = <<>>
    /\ str_data = <<>>
    /\ printed = <<>>
    /\ deadline = None
    /\ rresult = None
    /\ rnow = 0

\* lines 50-57: the print mode in force
PrintMode(a) ==
    LET m1 == IF a.print_prefix # None /\ a.print_mode = None
              THEN Some("with_timestamps_and_prefix") ELSE a.print_mode
        m2 == IF m1 = None THEN Some("no_printing") ELSE m1
    IN  IF m2[1] \in {"with_prefix", "with_timestamps_and_prefix"}
           /\ (a.print_prefix = None \/ a.print_prefix[1] = "")
        THEN "pure_lines" ELSE m2[1]

\* line 54: assert isinstance(print_mode, ExecutePrintMode)
ValidPrintMode(a) == a.print_mode = None \/ a.print_mode[1] \in ExecutePrintMode

\* lines 50-58: the assertion is outside the try, an AssertionError escapes
RCheckMode ==
    /\ rpc = "called"
    /\ rpc' = IF ValidPrintMode(rargs) THEN "popen" ELSE "raised"
    /\ UNCHANGED <<engine_vars, rargs, program, proc, pipe, str_data, printed,
                   deadline, rresult, rnow>>

\* line 67: subprocess.Popen raises FileNotFoundError when the executable or
\* the cwd does not exist; lines 76-77 turn it into (1, [])
LaunchFailure == <<1, <<>>>>
RPopen ==
    /\ rpc = "popen"
    /\ IF rargs.exe /\ rargs.cwd
       THEN /\ proc' = [alive |-> TRUE, stdout_open |-> TRUE, written |-> 0,
                        returncode |-> None, started |-> rnow, expired |-> FALSE,
                        killed |-> FALSE, reaped |-> FALSE]
            /\ rpc' = "read"
            /\ rresult' = rresult
       ELSE /\ proc' = proc
            /\ rpc' = "returned"
            /\ rresult' = LaunchFailure
    /\ UNCHANGED <<engine_vars, rargs, program, pipe, str_data, printed, deadline, rnow>>

\* The child writes the next character of its output
PWrite ==
    /\ rpc \in {"read", "communicate", "kill"}
    /\ proc.alive /\ proc.stdout_open
    /\ proc.written < Len(program.output)
    /\ pipe' = Append(pipe, program.output[proc.written + 1])
    /\ proc' = [proc EXCEPT !.written = @ + 1]
    /\ UNCHANGED <<engine_vars, rpc, rargs, program, str_data, printed, deadline,
                   rresult, rnow>>

\* The child closes its stdout and keeps running
PCloseStdout ==
    /\ rpc \in {"read", "communicate", "kill"}
    /\ proc.alive /\ proc.stdout_open
    /\ program.detach
    /\ proc.written = Len(program.output)
    /\ proc' = [proc EXCEPT !.stdout_open = FALSE]
    /\ UNCHANGED <<engine_vars, rpc, rargs, program, pipe, str_data, printed,
                   deadline, rresult, rnow>>

\* The child exits, which closes its stdout
PExit ==
    /\ rpc \in {"read", "communicate", "kill"}
    /\ proc.alive
    /\ proc.written = Len(program.output)
    /\ rnow >= proc.started + program.runtime
    /\ proc' = [proc EXCEPT !.alive = FALSE, !.stdout_open = FALSE,
                            !.returncode = Some(program.status)]
    /\ UNCHANGED <<engine_vars, rpc, rargs, program, pipe, str_data, printed,
                   deadline, rresult, rnow>>

\* `for line in proc.stdout`: the next line is the characters up to and with
\* the first "\n", or what is left when the stream is closed
HasNewline(s) == \E i \in 1..Len(s) : s[i] = "\n"
FirstNewline(s) == CHOOSE i \in 1..Len(s) : s[i] = "\n" /\ \A j \in 1..(i - 1) : s[j] # "\n"
LineEnd(s) == IF HasNewline(s) THEN FirstNewline(s) ELSE Len(s)

\* line 70: str(line).strip('\n')
StripNewlineNot(line) == line
StripNewline(line) == Strip(line, {"\n"})

\* lines 43-46: what the printer of the mode in force writes for a line
Printer(mode, prefix, line) ==
    CASE mode = "no_printing" -> <<>>
      [] mode = "pure_lines" -> <<line>>
      [] OTHER -> <<<<"[", prefix[1], "]">> \o line>>

\* lines 69-71: one turn of the read loop
RReadLine ==
    /\ rpc = "read"
    /\ pipe # <<>>
    /\ HasNewline(pipe) \/ ~proc.stdout_open
    /\ LET n == LineEnd(pipe)
           line == SubSeq(pipe, 1, n)
       IN  /\ str_data' = Append(str_data, StripNewline(line))
           /\ printed' = printed \o Printer(PrintMode(rargs), rargs.print_prefix, line)
           /\ pipe' = SubSeq(pipe, n + 1, Len(pipe))
    /\ UNCHANGED <<engine_vars, rpc, rargs, program, proc, deadline, rresult, rnow>>

\* line 69 ends at end of file, line 72 starts proc.communicate(timeout=timeout)
REof ==
    /\ rpc = "read"
    /\ pipe = <<>> /\ ~proc.stdout_open
    /\ rpc' = "communicate"
    /\ deadline' = IF rargs.timeout = None THEN None ELSE Some(rnow + rargs.timeout[1])
    /\ UNCHANGED <<engine_vars, rargs, program, proc, pipe, str_data, printed,
                   rresult, rnow>>

\* lines 72-73: the child has exited; return proc.returncode, str_data
RWaited ==
    /\ rpc = "communicate"
    /\ ~proc.alive
    /\ proc' = [proc EXCEPT !.reaped = TRUE]
    /\ rresult' = <<proc.returncode[1], str_data>>
    /\ rpc' = "returned"
    /\ UNCHANGED <<engine_vars, rargs, program, pipe, str_data, printed, deadline, rnow>>

\* line 72: the timeout has passed with the child still running: TimeoutExpired
RTimeout ==
    /\ rpc = "communicate"
    /\ deadline # None
    /\ rnow >= deadline[1]
    /\ proc.alive
    /\ rpc' = "kill"
    /\ proc' = [proc EXCEPT !.expired = TRUE]
    /\ UNCHANGED <<engine_vars, rargs, program, pipe, str_data, printed,
                   deadline, rresult, rnow>>

\* lines 78-81: proc.kill(); proc.communicate(); return 2, []
TimedOut == <<2, <<>>>>
RKill ==
    /\ rpc = "kill"
    /\ proc' = [proc EXCEPT !.alive = FALSE, !.stdout_open = FALSE, !.reaped = TRUE,
                            !.killed = proc.alive,
                            !.returncode = IF proc.alive THEN Some(-9) ELSE @]
    /\ rresult' = TimedOut
    /\ rpc' = "returned"
    /\ UNCHANGED <<engine_vars, rargs, program, pipe, str_data, printed, deadline, rnow>>

\* The wall clock advances
RTick ==
    /\ rpc \in {"read", "communicate", "kill"}
    /\ rnow < MaxRunTime
    /\ rnow' = rnow + 1
    /\ UNCHANGED <<engine_vars, rpc, rargs, program, proc, pipe, str_data, printed,
                   deadline, rresult>>

RNext ==
    \/ RCheckMode
    \/ RPopen
    \/ PWrite
    \/ PCloseStdout
    \/ PExit
    \/ RReadLine
    \/ REof
    \/ RWaited
    \/ RTimeout
    \/ RKill
    \/ RTick

SpecRunner == RInit /\ [][RNext]_vars

----------------------------------------------------------------------------
\* Notions the properties share

JobIds == 0..(NumLines - 1)
Produced == reported \o done_queue
SeqIds(rs) == {rs[i].job_id : i \in 1..Len(rs)}
NoRepeatedId(rs) ==
    \A i, j \in 1..Len(rs) : i # j => rs[i].job_id # rs[j].job_id
DrainFinished == mainpc \in {"stop", "done"}
AllTerminated == \A t \in Threads : threads[t].pc = "terminated"

\* Nothing more can happen in the program and nobody waits for the clock
Stuck ==
    /\ ~ENABLED ProgramStep
    /\ \A t \in Threads : threads[t].pc # "sleeping"

\* worker_count of host h in the host list
RECURSIVE WorkerCount(_, _)
WorkerCount(wh, h) ==
    IF wh = <<>> THEN 0
    ELSE (IF Head(wh)[1] = h THEN Head(wh)[2] ELSE 0) + WorkerCount(Tail(wh), h)

----------------------------------------------------------------------------
\* C1: every submitted job produces exactly one Result: no job_id is ever
\* produced twice, and once main has finished draining the job_ids of the
\* results it received are exactly 0..N-1, each once.
C1_ExactlyOneResult ==
    /\ NoRepeatedId(Produced)
    /\ DrainFinished =>
          /\ Len(reported) = NumLines
          /\ SeqIds(reported) = JobIds

C1_Witness ==
    /\ mainpc = "done"
    /\ NumLines = MaxJobs
    /\ Len(threads) >= 2
    /\ reported[1].job_id > reported[2].job_id

\* C2: for every N >= 0 the dispatcher terminates with no leaked worker: when
\* nothing more can happen (pool of at least one worker, runner bound, pause
\* valid), main has finished, N results were reported and every worker has
\* terminated.
C2_TerminatesNoLeak ==
    (Stuck /\ num_processes >= 1 /\ utils_bound /\ (Falsy(wait_secs) \/ wait_secs[1] > 0))
        => (mainpc = "done" /\ Len(reported) = NumLines /\ AllTerminated)

\* C3: with a pause p > 0, any two recorded start_date values of jobs started
\* on the same host are at least p apart.
Started ==
    {<<threads[t].job_id, threads[t].host, threads[t].start_date>> :
        t \in {u \in Threads : threads[u].pc \in {"running", "finish"}}}
    \cup {<<Produced[i].job_id, Produced[i].host, Produced[i].start_date>> :
             i \in 1..Len(Produced)}
Gap(a, b) == IF a >= b THEN a - b ELSE b - a
C3_StartsSpaced ==
    (~Falsy(wait_secs) /\ wait_secs[1] > 0) =>
        \A a, b \in Started :
            (a[1] # b[1] /\ a[2] = b[2]) => Gap(a[3], b[3]) >= wait_secs[1]

\* C5: no job is handed to two workers: every job_id is dequeued at most once
\* over the whole run and at most one worker holds it at any time.
C5_NoDoubleTake ==
    \A i \in JobIds :
        /\ taken[i] <= 1
        /\ Cardinality({t \in Threads : threads[t].job_id = i}) <= taken[i]

C5_Witness ==
    /\ \E t, u \in Threads :
          /\ t # u
          /\ threads[t].job_id = 0 /\ threads[u].job_id = 1
          /\ threads[t].pc = "running" /\ threads[u].pc = "running"

\* C6: exact accounting: sum(worker_count) workers are started, worker_count(h)
\* of them on each host h; exactly N results are drained; exactly
\* sum(worker_count) sentinels are sent, none before the N-th result is drained.
StopsInQueue == Cardinality({i \in 1..Len(task_queue) : task_queue[i] = <<"STOP">>})
C6_ExactAccounting ==
    /\ Len(threads) <= SumWorkers(work_hosts)
    /\ mainpc \notin {"submit", "setup"} =>
          \A h \in Hosts :
              Cardinality({t \in Threads : threads[t].host = h}) = WorkerCount(work_hosts, h)
    /\ Len(reported) <= NumLines
    /\ DrainFinished => Len(reported) = NumLines
    /\ stops_sent <= SumWorkers(work_hosts)
    /\ mainpc = "done" => stops_sent = SumWorkers(work_hosts)
    /\ stops_sent > 0 => Len(reported) = NumLines
    /\ StopsInQueue + Cardinality({t \in Threads : threads[t].pc = "terminated"}) = stops_sent

C6_Witness ==
    /\ mainpc = "done"
    /\ NumLines = MaxJobs
    /\ Len(work_hosts) = 2
    /\ stops_sent = MaxWorkers

\* C7: a job that exits non-zero or fails to launch does not abort the run: no
\* worker dies once its command has given a return code, every Result carries
\* the exit code of its command (1 for a command that cannot be launched), no
\* job is taken again, and a run that stops with no dead worker has reported
\* all N results and terminated.
ExpectedCode(job) ==
    CASE job = <<"true">> -> 0
      [] job = <<"false">> -> 1
      [] OTHER -> 1
C7_FailuresDoNotAbort ==
    /\ \A t \in Threads : threads[t].pc = "dead" => threads[t].return_code = -1
    /\ \A i \in 1..Len(Produced) :
          Produced[i].return_code = ExpectedCode(Produced[i].job)
    /\ \A i \in JobIds : taken[i] <= 1
    /\ (Stuck /\ NumLines >= 1 /\ num_processes >= 1
           /\ \A t \in Threads : threads[t].pc # "dead")
          => (mainpc = "done" /\ Len(reported) = NumLines /\ AllTerminated)

C7_Witness ==
    /\ mainpc = "done"
    /\ Len(threads) = 1
    /\ AllTerminated
    /\ Len(reported) = 2
    /\ reported[1].job = <<"false">> /\ reported[1].return_code = 1
    /\ reported[2].job = <<"nosuch">> /\ reported[2].return_code = 1

\* C9: an invalid throttle configuration (a negative pause) aborts the run
\* before any worker has dequeued a job.
C9_AbortBeforeDispatch ==
    (wait_secs # None /\ wait_secs[1] < 0) => \A i \in JobIds : taken[i] = 0

\* C10: workers of different hosts are not throttled against each other: the
\* registry lock is held only during the gate lookup, gates of different hosts
\* are different locks, and a worker waiting for its gate can take it unless a
\* worker of its own host is sleeping in the throttle.
C10_HostsIndependent ==
    /\ data_lock # 0 => threads[data_lock].pc = "lookup"
    /\ \A t, u \in Threads :
          (threads[t].gate # 0 /\ threads[u].gate # 0
             /\ threads[t].host # threads[u].host)
          => threads[t].gate # threads[u].gate
    /\ \A t \in Threads :
          (threads[t].pc = "acquire"
             /\ \A u \in Threads :
                   threads[u].host = threads[t].host => threads[u].pc # "sleeping")
          => ENABLED AcquireGate(t)

C10_Witness ==
    \E t, u \in Threads :
        /\ threads[t].host # threads[u].host
        /\ threads[t].pc = "sleeping" /\ locks[threads[t].gate] = t
        /\ threads[u].pc = "running" /\ threads[u].start_date >= wait_secs[1]

\* C11: the start throttle cannot deadlock: a worker holds at most one lock;
\* it holds the registry lock only during the gate lookup and a host gate only
\* during the sleep, so nothing is held once the throttle is left (by return
\* or by exception); the holder of a lock never waits for another lock and can
\* always go on to release it; and a run that can go no further has no worker
\* waiting in the throttle.
LocksHeld(t) ==
    (IF data_lock = t THEN 1 ELSE 0)
        + Cardinality({g \in 1..Len(locks) : locks[g] = t})
InThrottle(t) == threads[t].pc \in {"lock", "lookup", "acquire", "sleeping"}
C11_ThrottleNoDeadlock ==
    /\ \A t \in Threads : LocksHeld(t) <= 1
    /\ \A t \in Threads :
          /\ data_lock = t => threads[t].pc = "lookup"
          /\ \A g \in 1..Len(locks) :
                locks[g] = t => (threads[t].pc = "sleeping" /\ threads[t].gate = g)
          /\ ~InThrottle(t) => LocksHeld(t) = 0
    /\ data_lock # 0 => ENABLED LookupGate(data_lock)
    /\ \A g \in 1..Len(locks) :
          locks[g] # 0 =>
              /\ threads[locks[g]].wake <= now + wait_secs[1]
              /\ now >= threads[locks[g]].wake => ENABLED Wake(locks[g])
    /\ (\E t \in Threads : InThrottle(t)) => ~Stuck

C11_Witness ==
    \E t, u \in Threads :
        /\ t # u
        /\ threads[t].pc = "sleeping" /\ locks[threads[t].gate] = t
        /\ threads[u].pc = "acquire" /\ threads[u].gate = threads[t].gate
        /\ ~ENABLED AcquireGate(u)
        /\ now < threads[t].wake

\* C12: results reach the reporter once each and in arrival order: the order
\* of the results pushed so far (those reported, then those still queued) only
\* ever grows at its end, by one result per push, and the reported results are
\* always its beginning, without repeated index; nothing sorts them by index.
IsPrefix(a, b) == Len(a) <= Len(b) /\ SubSeq(b, 1, Len(a)) = a
C12_ArrivalOrder ==
    [][/\ IsPrefix(Produced, Produced')
       /\ Len(Produced') <= Len(Produced) + 1
       /\ IsPrefix(reported, reported')
       /\ Len(reported') <= Len(reported) + 1
       /\ NoRepeatedId(reported')]_vars

C12_Witness ==
    /\ Len(threads) >= 2
    /\ Len(reported) = 1 /\ reported[1].job_id = 1
    /\ Len(done_queue) = 1 /\ done_queue[1].job_id = 0

\* C13: every Result is correctly attributed: the Result with index i carries
\* the command submitted with index i (the stripped i-th line of the job file)
\* and the exit code of that command; a worker holding index i holds that
\* command; and the Result a worker pushes carries the index that worker
\* dequeued and that worker's host.
SubmittedJob(i) == Strip(jobfile[i + 1], Whitespace)
C13_Attributed ==
    [][/\ \A i \in 1..Len(Produced') :
             /\ Produced'[i].job_id \in JobIds
             /\ Produced'[i].job = SubmittedJob(Produced'[i].job_id)
             /\ Produced'[i].return_code = ExpectedCode(SubmittedJob(Produced'[i].job_id))
       /\ \A t \in 1..Len(threads') :
             threads'[t].job_id # -1 =>
                 threads'[t].job = SubmittedJob(threads'[t].job_id)
       /\ Len(Produced') > Len(Produced) =>
             \E t \in Threads :
                 /\ threads[t].pc = "finish" /\ threads'[t].pc # "finish"
                 /\ Produced'[Len(Produced')].job_id = threads[t].job_id
                 /\ Produced'[Len(Produced')].host = threads[t].host]_vars

C13_Witness ==
    /\ Len(work_hosts) = 2
    /\ Len(reported) = 2
    /\ reported[1].job_id = 1 /\ reported[1].job = <<"false">>
    /\ reported[1].return_code = 1 /\ reported[1].host = "hans"
    /\ reported[2].job_id = 0 /\ reported[2].job = <<"true">>
    /\ reported[2].return_code = 0 /\ reported[2].host = "peter"

\* C14: with the pause unset or zero the throttle touches no synchronization
\* state: the registry lock is never taken, no gate is created or taken (the
\* gate registry stays empty for the whole run) and no worker is ever inside
\* the throttle, blocked or sleeping.
PauseOff == wait_secs = None \/ wait_secs[1] = 0
C14_FastPath ==
    PauseOff =>
        /\ data_lock = 0
        /\ lock_data = <<>>
        /\ locks = <<>>
        /\ \A t \in Threads :
              /\ threads[t].pc \notin {"lock", "lookup", "acquire", "sleeping"}
              /\ threads[t].gate = 0
              /\ threads[t].wake = -1
              /\ threads[t].pc = "start" => ENABLED StartJob(t)

C14_Witness ==
    /\ wait_secs = Some(0)
    /\ Len(threads) >= 2
    /\ Len(reported) = MaxJobs
    /\ mainpc = "done"
    /\ lock_data = <<>>

\* C15: each worker follows Waiting / Running / Terminated: it leaves Waiting
\* only by taking the head of the job queue, to Running with that one job when
\* the head is a job and to Terminated when it is the sentinel; Terminated is
\* entered only from Waiting and is final; every dequeue is the step of one
\* waiting worker; a worker holds a job exactly while Running; and sentinels
\* match workers one to one: those sent are those consumed by the terminated
\* workers plus those queued, and once all are sent each worker still waiting
\* has one queued.
Waiting(th) == th.pc = "get"
Running(th) ==
    th.pc \in {"lock", "lookup", "acquire", "sleeping", "start", "running", "finish"}
Terminated(th) == th.pc = "terminated"
Count(S) == Cardinality(S)
C15_WorkerStateMachine ==
    [][/\ \A t \in Threads :
             /\ Terminated(threads[t]) => threads'[t] = threads[t]
             /\ (Waiting(threads[t]) /\ ~Waiting(threads'[t])) =>
                   /\ task_queue # <<>>
                   /\ task_queue' = Tail(task_queue)
                   /\ IF Head(task_queue) = <<"STOP">>
                      THEN Terminated(threads'[t])
                      ELSE /\ Running(threads'[t])
                           /\ threads'[t].job_id = Head(task_queue)[2]
             /\ (Terminated(threads'[t]) /\ ~Terminated(threads[t])) =>
                   (Waiting(threads[t]) /\ Head(task_queue) = <<"STOP">>)
             /\ (Running(threads'[t]) /\ ~Running(threads[t])) =>
                   (Waiting(threads[t]) /\ Head(task_queue)[1] = "JOB")
             /\ (Waiting(threads'[t]) /\ ~Waiting(threads[t])) =>
                   /\ Running(threads[t])
                   /\ Len(done_queue') = Len(done_queue) + 1
                   /\ done_queue'[Len(done_queue')].job_id = threads[t].job_id
       /\ Len(task_queue') < Len(task_queue) =>
             \E t \in Threads :
                 /\ Waiting(threads[t]) /\ ~Waiting(threads'[t])
                 /\ \A u \in Threads \ {t} : threads'[u] = threads[u]
       /\ \A t \in 1..Len(threads') :
             /\ Running(threads'[t]) => threads'[t].job_id \in JobIds
             /\ (Waiting(threads'[t]) \/ Terminated(threads'[t])) =>
                   threads'[t].job_id = -1
       /\ Count({i \in 1..Len(task_queue') : task_queue'[i] = <<"STOP">>})
             + Count({t \in 1..Len(threads') : Terminated(threads'[t])}) = stops_sent'
       /\ mainpc' = "done" =>
             /\ \A i \in 1..Len(task_queue') : task_queue'[i] = <<"STOP">>
             /\ Len(task_queue')
                   = Count({t \in 1..Len(threads') : Waiting(threads'[t])})
             /\ \A t \in 1..Len(threads') :
                   Waiting(threads'[t]) \/ Terminated(threads'[t])]_vars

C15_Witness ==
    /\ mainpc = "done"
    /\ Len(threads) = MaxWorkers
    /\ Len(reported) = MaxJobs
    /\ Terminated(threads[2]) /\ Waiting(threads[1])
    /\ task_queue = <<<<"STOP">>>>

\* C16: no lock is held while a command executes: a worker between the end of
\* the throttle and the push of its Result holds neither the registry lock nor
\* a gate, so its execution can always finish and a worker of the same host
\* waiting for the gate can take it unless another one is sleeping; several
\* jobs of one host execute at the same time.
PastThrottle(t) == threads[t].pc \in {"start", "running", "finish"}
C16_NoGateWhileExecuting ==
    /\ \A t \in Threads :
          PastThrottle(t) =>
              /\ data_lock # t
              /\ \A g \in 1..Len(locks) : locks[g] # t
              /\ threads[t].gate = 0
    /\ \A t \in Threads : threads[t].pc = "running" => ENABLED ProcExit(t)
    /\ \A t, u \in Threads :
          (/\ threads[t].pc = "running"
           /\ threads[u].pc = "acquire"
           /\ threads[u].host = threads[t].host
           /\ \A v \in Threads :
                 threads[v].host = threads[t].host => threads[v].pc # "sleeping")
          => ENABLED AcquireGate(u)

C16_Witness ==
    \E t, u \in Threads :
        /\ t # u
        /\ wait_secs = Some(Pause)
        /\ threads[t].host = threads[u].host
        /\ threads[t].pc = "running" /\ threads[u].pc = "running"
        /\ threads[t].start_date >= Pause /\ threads[u].start_date >= Pause

\* C17: one gate per host, made on first reference: the registry never holds
\* two entries for one host nor one lock under two hosts, it holds an entry
\* only for a host some worker of which has taken a job, every worker of a
\* host that has looked its gate up holds the registry's one lock for that
\* host, and at most one worker per host is inside the throttle sleep.
GateOf(h) == {lock_data[e][2] : e \in {f \in 1..Len(lock_data) : lock_data[f][1] = h}}
C17_OneGatePerHost ==
    /\ Len(locks) = Len(lock_data)
    /\ \A e, f \in 1..Len(lock_data) :
          e # f => (lock_data[e][1] # lock_data[f][1] /\ lock_data[e][2] # lock_data[f][2])
    /\ \A e \in 1..Len(lock_data) :
          /\ lock_data[e][2] \in 1..Len(locks)
          /\ WorkerCount(work_hosts, lock_data[e][1]) >= 1
    /\ Len(lock_data) <= Cardinality({i \in JobIds : taken[i] >= 1})
    /\ \A t \in Threads :
          threads[t].gate # 0 => GateOf(threads[t].host) = {threads[t].gate}
    /\ \A h \in Hosts :
          Cardinality({t \in Threads :
                          threads[t].host = h /\ threads[t].pc = "sleeping"}) <= 1

C17_Witness ==
    /\ work_hosts = <<<<"hans", 2>>>>
    /\ Len(lock_data) = 1 /\ Len(locks) = 1
    /\ Len(threads) = 2
    /\ threads[1].gate = 1 /\ threads[2].gate = 1
    /\ threads[1].pc = "acquire" /\ threads[2].pc = "acquire"

\* C18: shutdown never overtakes work: whenever a sentinel has been sent, is
\* queued, or has terminated a worker, the job queue holds no job, every job
\* has been taken, no worker is Running or lost with a job, and all N Results
\* have been pushed and drained.
QueuedJobs == {i \in 1..Len(task_queue) : task_queue[i][1] = "JOB"}
ShutdownBegun ==
    \/ stops_sent > 0
    \/ \E i \in 1..Len(task_queue) : task_queue[i] = <<"STOP">>
    \/ \E t \in Threads : Terminated(threads[t])
C18_ShutdownAfterWork ==
    ShutdownBegun =>
        /\ QueuedJobs = {}
        /\ \A i \in JobIds : taken[i] = 1
        /\ \A t \in Threads : Waiting(threads[t]) \/ Terminated(threads[t])
        /\ Len(reported) = NumLines
        /\ SeqIds(reported) = JobIds
        /\ done_queue = <<>>

C18_Witness ==
    /\ NumLines = MaxJobs
    /\ Len(threads) = 2
    /\ stops_sent = 1
    /\ Terminated(threads[1]) /\ Waiting(threads[2])
    /\ task_queue = <<>>

\* C19: a worker in which an exception was raised between the dequeue and the
\* push has ended for good and its job is lost: the job is neither queued
\* again nor ever gets a Result, main never leaves the drain loop, no sentinel
\* is ever sent, no worker terminates, and when nothing more can happen main
\* is blocked in the drain loop and every other worker is blocked waiting.
Died(th) == th.exc # ""
C19_DeathLosesJob ==
    /\ [](\A t \in Threads :
            Died(threads[t]) =>
                /\ threads[t].pc = "dead"
                /\ threads[t].job_id \in JobIds
                /\ taken[threads[t].job_id] = 1
                /\ threads[t].job_id \notin SeqIds(Produced)
                /\ \A i \in QueuedJobs : task_queue[i][2] # threads[t].job_id
                /\ mainpc \in {"setup", "drain"}
                /\ Len(reported) < NumLines
                /\ ~ShutdownBegun
                /\ Stuck =>
                      /\ mainpc = "drain"
                      /\ done_queue = <<>>
                      /\ \A u \in Threads :
                            Died(threads[u]) \/ Waiting(threads[u]))
    /\ [][\A t \in Threads : Died(threads[t]) => threads'[t] = threads[t]]_vars

C19_Witness ==
    /\ Stuck
    /\ mainpc = "drain"
    /\ task_queue = <<>> /\ done_queue = <<>>
    /\ \E t, u \in Threads :
          /\ threads[t].pc = "dead" /\ threads[t].exc = "ValueError"
          /\ Waiting(threads[u])

\* C20: concurrency is capped by the worker counts: on each host h at most
\* worker_count(h) jobs are Running (in the throttle or executing), at most
\* sum(worker_count) in all, each by a worker of its own, and the jobs taken
\* and not yet given a Result never outnumber the workers, however many jobs
\* are still queued.
RunningOn(h) == {t \in Threads : threads[t].host = h /\ Running(threads[t])}
TakenUnfinished ==
    LET answered == SeqIds(Produced)
    IN  {i \in JobIds : taken[i] >= 1 /\ i \notin answered}
C20_ConcurrencyCapped ==
    /\ \A h \in Hosts :
          Cardinality(RunningOn(h)) <= WorkerCount(work_hosts, h)
    /\ \A t, u \in Threads :
          (t # u /\ Running(threads[t]) /\ Running(threads[u]))
              => threads[t].job_id # threads[u].job_id
    /\ Cardinality({t \in Threads : Running(threads[t])}) <= SumWorkers(work_hosts)
    /\ LET unfinished == Cardinality(TakenUnfinished)
       IN  unfinished <= SumWorkers(work_hosts) /\ unfinished <= Len(threads)

C20_Witness ==
    /\ work_hosts = <<<<"hans", 1>>>>
    /\ Cardinality(RunningOn("hans")) = 1
    /\ threads[1].pc = "running"
    /\ QueuedJobs # {}

----------------------------------------------------------------------------
\* Notions the runner's properties share

Launched == rargs.exe /\ rargs.cwd
Returned == rpc = "returned"

\* str.splitlines() of what the child wrote: the lines without their "\n"
RECURSIVE SplitLines(_, _)
SplitLines(raw, cur) ==
    IF raw = <<>> THEN (IF cur = <<>> THEN <<>> ELSE <<cur>>)
    ELSE IF Head(raw) = "\n" THEN <<cur>> \o SplitLines(Tail(raw), <<>>)
    ELSE SplitLines(Tail(raw), Append(cur, Head(raw)))

\* C4: called with a timeout on a command that only sleeps for longer than
\* the timeout, execute returns (2, []) and the child is killed and reaped.
C4_TimeoutKills ==
    (/\ Returned /\ Launched
     /\ rargs.timeout # None
     /\ program.output = <<>> /\ ~program.detach
     /\ program.runtime > rargs.timeout[1])
    => (rresult = <<2, <<>>>> /\ ~proc.alive /\ proc.reaped)

\* C8: execute returns a pair and raises nothing for the listed outcomes: a
\* missing executable or cwd gives (1, []); a child that runs to completion
\* gives (its exit status, the lines it wrote, in order, "\n" stripped).
C8_Normalized ==
    /\ ValidPrintMode(rargs) => rpc # "raised"
    /\ Returned => (rresult # None /\ Len(rresult) = 2)
    /\ (Returned /\ ~Launched) => rresult = <<1, <<>>>>
    /\ (Returned /\ Launched /\ ~proc.expired)
          => rresult = <<program.status, SplitLines(program.output, <<>>)>>

C8_Witness ==
    /\ Returned /\ Launched
    /\ rargs.timeout # None
    /\ rresult = <<3, <<<<"h">>, <<>>>>>>
    /\ printed # <<>>

====
